---- MODULE Spec2Model ----
(***************************************************************************)
(* Model of pkg/connection/conn.go: the ConnManager connection cache, the  *)
(* translation of a config.Cluster into a sarama.Config, and the           *)
(* reconnect-and-retry around Broker.GetAvailableOffsets.                  *)
(***************************************************************************)
EXTENDS Integers, Sequences, FiniteSets, TLC

VARIABLES
    config,   \* what config.ReadConfig("") yields: [Clusters, active]
    conns,    \* ConnManager.conns: map[string]sarama.Client (name -> client id)
    opens,    \* history: every successful sarama.NewClient, in order
    last,     \* history: the call that returned (or panicked) last
    calls,    \* number of calls made so far
    pc,       \* concurrent callers: position of each goroutine in its call
    loc,      \* concurrent callers: the locals of each goroutine
    writers   \* concurrent callers: goroutines inside the map assignment

vars == <<config, conns, opens, last, calls, pc, loc, writers>>

----------------------------------------------------------------------------
(* Bounds of the model. *)

MaxCalls == 3

Procs == {1, 2}

----------------------------------------------------------------------------
(* Values. *)

\* Go's nil error, and the error values of this file and its libraries.  `by'
\* is the function that created the value, `prefix' the format text of an
\* error made by fmt.Errorf, `of'/`arg' what the message was built from.
NoErr == [by |-> "", prefix |-> "", of |-> "", arg |-> ""]

LibErr(by, arg) == [by |-> by, prefix |-> "", of |-> "", arg |-> arg]

\* fmt.Errorf(prefix + "%v", e): a NEW error value whose text embeds e's text.
Errorf(prefix, e) == [by |-> "fmt.Errorf", prefix |-> prefix, of |-> e.by, arg |-> e.arg]

\* fmt.Errorf("Cluster \"%v\" not found.", cluster)
NotFoundErr(cluster) ==
    [by |-> "fmt.Errorf", prefix |-> "Cluster not found", of |-> "", arg |-> cluster]

\* config.Cluster and its optional sections (present = FALSE is a nil pointer).
NoSASL == [present |-> FALSE, Username |-> "", Password |-> "", Mechanism |-> ""]

SASLOf(mech) ==
    [present |-> TRUE, Username |-> "user", Password |-> "secret", Mechanism |-> mech]

NoTLS ==
    [present |-> FALSE, Cafile |-> "", Clientfile |-> "", Clientkeyfile |-> "",
     Insecure |-> FALSE]

TLSOf(ca, cert, key, insecure) ==
    [present |-> TRUE, Cafile |-> ca, Clientfile |-> cert, Clientkeyfile |-> key,
     Insecure |-> insecure]

ClusterOf(name, brokers, version, sasl, tls, proto) ==
    [present |-> TRUE, Name |-> name, Brokers |-> brokers, Version |-> version,
     SASL |-> sasl, TLS |-> tls, SecurityProtocol |-> proto]

\* var cl *config.Cluster (nil)
NilCluster ==
    [present |-> FALSE, Name |-> "", Brokers |-> "", Version |-> "",
     SASL |-> NoSASL, TLS |-> NoTLS, SecurityProtocol |-> ""]

----------------------------------------------------------------------------
(* The libraries toSaramaConfig calls. *)

\* sarama.V1_1_0_0
V1_1_0_0 == <<1, 1, 0, 0>>

\* sarama.ParseKafkaVersion: the strings of the model that parse, with the
\* version each denotes; every other string is a parse error.
KafkaVersions ==
    [s \in {"2.0.0", "0.10.2.0", "1.1.0"} |->
        CASE s = "2.0.0" -> <<2, 0, 0, 0>>
          [] s = "0.10.2.0" -> <<0, 10, 2, 0>>
          [] OTHER -> <<1, 1, 0, 0>>]

ParseKafkaVersion(s) ==
    IF s \in DOMAIN KafkaVersions
    THEN [ok |-> TRUE, version |-> KafkaVersions[s], err |-> NoErr]
    ELSE [ok |-> FALSE, version |-> <<0, 0, 0, 0>>,
          err |-> LibErr("sarama.ParseKafkaVersion", s)]

\* The file system ioutil.ReadFile sees: these paths cannot be read.
MissingFiles == {"missing.pem", "missing.key"}

ReadFile(path) ==
    IF path \in MissingFiles
    THEN [ok |-> FALSE, err |-> LibErr("ioutil.ReadFile", path)]
    ELSE [ok |-> TRUE, err |-> NoErr]

\* tls.X509KeyPair fails on a certificate or key that is not valid PEM.
InvalidPEM == {"garbage.pem", "garbage.key"}

X509KeyPair(cert, key) ==
    IF cert \in InvalidPEM \/ key \in InvalidPEM
    THEN [ok |-> FALSE, err |-> LibErr("tls.X509KeyPair", cert)]
    ELSE [ok |-> TRUE, err |-> NoErr]

----------------------------------------------------------------------------
(* toSaramaConfig *)

\* &tls.Config{...} and the unset pointer.
NoTLSConfig == [set |-> FALSE, InsecureSkipVerify |-> FALSE, RootCAs |-> "", Certificates |-> ""]

TLSConfigOf(insecure, rootCAs, cert) ==
    [set |-> TRUE, InsecureSkipVerify |-> insecure, RootCAs |-> rootCAs, Certificates |-> cert]

\* sarama.NewConfig() with the four settings of lines 150-153.
NewConfig ==
    [Version |-> V1_1_0_0,
     SASLEnable |-> FALSE, SASLUser |-> "", SASLPassword |-> "",
     SASLMechanism |-> "", SCRAM |-> "",
     TLSEnable |-> FALSE, TLSConfig |-> NoTLSConfig]

\* The three ways the function ends.  `cause' is the error value of the
\* library step that failed (history: the code does not return it).
CfgOk(cfg) == [kind |-> "ok", cfg |-> cfg, err |-> NoErr, cause |-> NoErr]

CfgErr(err, cause) == [kind |-> "err", cfg |-> NewConfig, err |-> err, cause |-> cause]

CfgPanic == [kind |-> "panic", cfg |-> NewConfig, err |-> NoErr, cause |-> NoErr]

\* Mutant: the parse error is returned as it is.
VersionStepUnwrapped(cluster, cfg) ==
    IF cluster.Version /= ""
    THEN LET p == ParseKafkaVersion(cluster.Version)
         IN  IF ~p.ok THEN CfgErr(p.err, p.err)
             ELSE CfgOk([cfg EXCEPT !.Version = p.version])
    ELSE CfgOk(cfg)

\* Mutant: a version that does not parse is ignored and the default kept.
VersionStepLenient(cluster, cfg) ==
    IF cluster.Version /= ""
    THEN LET p == ParseKafkaVersion(cluster.Version)
         IN  IF ~p.ok THEN CfgOk(cfg)
             ELSE CfgOk([cfg EXCEPT !.Version = p.version])
    ELSE CfgOk(cfg)

\* lines 155-161
VersionStep(cluster, cfg) ==
    IF cluster.Version /= ""
    THEN LET p == ParseKafkaVersion(cluster.Version)
         IN  IF ~p.ok
             THEN CfgErr(Errorf("Unable to parse Kafka version: ", p.err), p.err)
             ELSE CfgOk([cfg EXCEPT !.Version = p.version])
    ELSE CfgOk(cfg)

\* Mutant: the credentials are copied but SASL is not switched on.
SASLStepNotEnabled(cluster, cfg) ==
    IF cluster.SASL.present
    THEN [cfg EXCEPT !.SASLUser = cluster.SASL.Username,
                     !.SASLPassword = cluster.SASL.Password]
    ELSE cfg

\* lines 162-166
SASLStep(cluster, cfg) ==
    IF cluster.SASL.present
    THEN [cfg EXCEPT !.SASLEnable = TRUE,
                     !.SASLUser = cluster.SASL.Username,
                     !.SASLPassword = cluster.SASL.Password]
    ELSE cfg

\* lines 183-200: the client certificate, inside the first TLS branch
ClientCertStep(cluster, cfg, tlsConfig) ==
    IF cluster.TLS.Clientfile /= "" /\ cluster.TLS.Clientkeyfile /= ""
    THEN LET c == ReadFile(cluster.TLS.Clientfile)
             k == ReadFile(cluster.TLS.Clientkeyfile)
             kp == X509KeyPair(cluster.TLS.Clientfile, cluster.TLS.Clientkeyfile)
         IN  IF ~c.ok THEN CfgErr(Errorf("Unable to read Clientfile :", c.err), c.err)
             ELSE IF ~k.ok THEN CfgErr(Errorf("Unable to read Clientkeyfile :", k.err), k.err)
             ELSE IF ~kp.ok THEN CfgErr(Errorf("Unable to creatre KeyPair: ", kp.err), kp.err)
             ELSE CfgOk([cfg EXCEPT !.TLSConfig =
                            [tlsConfig EXCEPT !.Certificates = cluster.TLS.Clientfile]])
    ELSE CfgOk([cfg EXCEPT !.TLSConfig = tlsConfig])

\* lines 167-202
TLSStep(cluster, cfg) ==
    IF cluster.TLS.present /\ cluster.SecurityProtocol /= "SASL_SSL"
    THEN LET on == [cfg EXCEPT !.TLSEnable = TRUE]
             t0 == TLSConfigOf(cluster.TLS.Insecure, "", "")
         IN  IF cluster.TLS.Cafile /= ""
             THEN LET ca == ReadFile(cluster.TLS.Cafile)
                  IN  IF ~ca.ok
                      THEN CfgErr(Errorf("Unable to read Cafile :", ca.err), ca.err)
                      ELSE ClientCertStep(cluster, on,
                                          [t0 EXCEPT !.RootCAs = cluster.TLS.Cafile])
             ELSE ClientCertStep(cluster, on, t0)
    ELSE CfgOk(cfg)

\* lines 223-229: cluster.SASL is dereferenced without a nil check
MechanismStep(cluster, cfg) ==
    IF ~cluster.SASL.present THEN CfgPanic
    ELSE IF cluster.SASL.Mechanism = "SCRAM-SHA-512"
    THEN CfgOk([cfg EXCEPT !.SCRAM = "SHA512", !.SASLMechanism = "SCRAM-SHA-512"])
    ELSE IF cluster.SASL.Mechanism = "SCRAM-SHA-256"
    THEN CfgOk([cfg EXCEPT !.SCRAM = "SHA256", !.SASLMechanism = "SCRAM-SHA-256"])
    ELSE CfgOk(cfg)

\* lines 203-230
SASLSSLStep(cluster, cfg) ==
    IF cluster.SecurityProtocol = "SASL_SSL"
    THEN LET on == [cfg EXCEPT !.TLSEnable = TRUE]
         IN  IF cluster.TLS.present
             THEN LET t0 == TLSConfigOf(cluster.TLS.Insecure, "", "")
                  IN  IF cluster.TLS.Cafile /= ""
                      THEN LET ca == ReadFile(cluster.TLS.Cafile)
                           IN  IF ~ca.ok
                               THEN CfgErr(ca.err, ca.err)
                               ELSE MechanismStep(cluster,
                                        [on EXCEPT !.TLSConfig =
                                            [t0 EXCEPT !.RootCAs = cluster.TLS.Cafile]])
                      ELSE MechanismStep(cluster, [on EXCEPT !.TLSConfig = t0])
             ELSE MechanismStep(cluster,
                      [on EXCEPT !.TLSConfig = TLSConfigOf(FALSE, "", "")])
    ELSE CfgOk(cfg)

\* func toSaramaConfig(cluster *config.Cluster) (*sarama.Config, error)
\* A nil cluster is dereferenced at line 155.
toSaramaConfig(cluster) ==
    IF ~cluster.present THEN CfgPanic
    ELSE LET v == VersionStep(cluster, NewConfig)
         IN  IF v.kind /= "ok" THEN v
             ELSE LET t == TLSStep(cluster, SASLStep(cluster, v.cfg))
                  IN  IF t.kind /= "ok" THEN t
                      ELSE SASLSSLStep(cluster, t.cfg)

----------------------------------------------------------------------------
(* The configuration file and the cluster lookup. *)

\* The cluster-name arguments callers pass: the empty name, a name the
\* configuration file may list, and a name it never lists.
Names == {"", "a", "x"}

\* The clusters a configuration file of the model may list.
SampleClusters ==
    { ClusterOf("a", "a1:9092", "", NoSASL, NoTLS, ""),
      ClusterOf("a", "a2:9092", "2.0.0", SASLOf("PLAIN"), NoTLS, ""),
      ClusterOf("b", "b1:9092", "", SASLOf("SCRAM-SHA-512"),
                TLSOf("ca.pem", "", "", FALSE), "SASL_SSL"),
      ClusterOf("b", "b2:9092", "bogus", NoSASL, NoTLS, ""),
      ClusterOf("b", "b3:9092", "", NoSASL,
                TLSOf("missing.pem", "", "", FALSE), ""),
      ClusterOf("b", "b4:9092", "", SASLOf("SCRAM-SHA-256"),
                TLSOf("missing.pem", "", "", FALSE), "SASL_SSL"),
      ClusterOf("b", "b5:9092", "", NoSASL, NoTLS, "SASL_SSL"),
      ClusterOf("b", "b6:9092", "", NoSASL,
                TLSOf("ca.pem", "client.pem", "garbage.key", TRUE), ""),
      ClusterOf("b", "b7:9092", "", NoSASL,
                TLSOf("", "missing.pem", "client.key", FALSE), ""),
      ClusterOf("b", "b8:9092", "", NoSASL,
                TLSOf("", "client.pem", "missing.key", FALSE), "") }

\* The cluster lists of the model's configuration files: none, one cluster,
\* or any cluster followed by one named "a" (two of a name included).
ClusterLists ==
    {<< >>} \cup {<<c>> : c \in SampleClusters}
            \cup {<<c, d>> : c \in SampleClusters,
                             d \in {e \in SampleClusters : e.Name = "a"}}

\* Mutant: a name that matches nothing yields the first cluster of the list.
FindClusterOrFirst(clusters, cluster) ==
    LET hits == {i \in 1..Len(clusters) : clusters[i].Name = cluster}
    IN  IF hits = {} THEN (IF Len(clusters) = 0 THEN NilCluster ELSE clusters[1])
        ELSE clusters[CHOOSE i \in hits : \A j \in hits : j <= i]

\* for _, cx := range configTotal.Clusters { if cx.Name == cluster { cl = cx } }
\* The loop has no break: the last match stays in cl; no match leaves cl nil.
FindCluster(clusters, cluster) ==
    LET hits == {i \in 1..Len(clusters) : clusters[i].Name = cluster}
    IN  IF hits = {} THEN NilCluster
        ELSE clusters[CHOOSE i \in hits : \A j \in hits : j <= i]

\* configTotal.ActiveCluster(): the cluster the configuration marks current,
\* nil when it marks none.
ActiveCluster(cfg) ==
    IF cfg.active = 0 THEN NilCluster ELSE cfg.Clusters[cfg.active]

\* Mutant: no fallback to the active cluster.
ResolveNamedOnly(cfg, cluster) == FindCluster(cfg.Clusters, cluster)

\* lines 88-100 and 119-131: the named cluster, else the active one
ResolveOrActive(cfg, cluster) ==
    LET cl == IF cluster = "" THEN ActiveCluster(cfg)
              ELSE FindCluster(cfg.Clusters, cluster)
    IN  IF ~cl.present THEN ActiveCluster(cfg) ELSE cl

----------------------------------------------------------------------------
(* The cache. *)

\* make(map[string]sarama.Client)
EmptyMap == [k \in {} |-> 0]

\* Mutant: the lookup never finds the entry.
LookupAlwaysMiss(m, cluster) == [ok |-> FALSE, cl |-> 0]

\* cl, ok := c.conns[cluster]
Lookup(m, cluster) ==
    IF cluster \in DOMAIN m THEN [ok |-> TRUE, cl |-> m[cluster]]
    ELSE [ok |-> FALSE, cl |-> 0]

\* Mutant: the opened client is returned but never stored.
CacheStoreDropped(m, cluster, client) == m

\* Mutant: the store replaces the whole map by the new entry.
CacheStoreAlone(m, cluster, client) == [k \in {cluster} |-> client]

\* c.conns[cluster] = client
CacheStore(m, cluster, client) ==
    [k \in DOMAIN m \cup {cluster} |-> IF k = cluster THEN client ELSE m[k]]

----------------------------------------------------------------------------
(* The calls.  Each operator computes one whole call from the cache m it  *)
(* finds, the configuration file cfg, the outcomes env of the library     *)
(* calls it makes and the identity fresh of the client NewClient would    *)
(* return.  The result holds the cache after the call (conns), what the   *)
(* caller gets (outcome, client, adminFrom, err, resp) and history fields.*)

\* The outcomes of the library calls: all of them succeeding, and the
\* outcomes an action draws when only the calls in `free' can happen in it.
AllOk ==
    [cfgOk |-> TRUE, openOk |-> TRUE, adminOk |-> TRUE,
     send1Ok |-> TRUE, brokerOpenOk |-> TRUE, send2Ok |-> TRUE]

Envs(free) ==
    {[k \in DOMAIN AllOk |-> k \notin failed] : failed \in SUBSET free}

Ret(m, cluster) ==
    [conns |-> m,               \* the cache after the call
     outcome |-> "ok",          \* "ok" | "err" | "panic"
     client |-> 0,              \* the sarama.Client returned (0: nil)
     admin |-> FALSE,           \* a ClusterAdmin was returned
     adminFrom |-> 0,           \* client passed to NewClusterAdminFromClient
     gotCfg |-> FALSE,          \* a *sarama.Config was returned
     cfg |-> NewConfig,         \* that configuration
     err |-> NoErr,             \* the error returned
     cause |-> NoErr,           \* the error of the library step that failed
     hit |-> cluster \in DOMAIN m, \* the name was cached when the call began
     readCfg |-> FALSE,         \* config.ReadConfig was called
     opened |-> 0,              \* client opened by sarama.NewClient (0: none)
     tried |-> FALSE,           \* sarama.NewClient was called
     target |-> NilCluster,     \* the cluster record the call resolved
     trace |-> << >>,           \* the calls made on the broker, in order
     cfgErr |-> NoErr,          \* the error GetConfig returned to GetAvailableOffsets
     resp |-> ""]               \* the offset response returned

Fail(r, err, cause) == [r EXCEPT !.outcome = "err", !.err = err, !.cause = cause]

Panic(r) == [r EXCEPT !.outcome = "panic"]

\* Mutant: the entry is stored under the configured cluster's own name.
OpenAndStoreByClusterName(r, cluster, cl, env, fresh) ==
    LET c == toSaramaConfig(cl)
    IN  IF c.kind = "panic" THEN Panic(r)
        ELSE IF c.kind = "err" THEN Fail(r, c.err, c.cause)
        ELSE IF ~env.openOk
             THEN LET e == LibErr("sarama.NewClient", cl.Brokers)
                  IN  Fail([r EXCEPT !.tried = TRUE], e, e)
        ELSE [r EXCEPT !.tried = TRUE, !.opened = fresh,
                       !.conns = CacheStore(r.conns, cl.Name, fresh)]

\* Mutant: the result of NewClient is stored before its error is checked.
OpenAndStoreUnchecked(r, cluster, cl, env, fresh) ==
    LET c == toSaramaConfig(cl)
    IN  IF c.kind = "panic" THEN Panic(r)
        ELSE IF c.kind = "err" THEN Fail(r, c.err, c.cause)
        ELSE IF ~env.openOk
             THEN LET e == LibErr("sarama.NewClient", cl.Brokers)
                  IN  Fail([r EXCEPT !.tried = TRUE,
                                     !.conns = CacheStore(r.conns, cluster, 0)], e, e)
        ELSE [r EXCEPT !.tried = TRUE, !.opened = fresh,
                       !.conns = CacheStore(r.conns, cluster, fresh)]

\* lines 51-63 and 133-143: build the configuration, open the client, store it
OpenAndStore(r, cluster, cl, env, fresh) ==
    LET c == toSaramaConfig(cl)
    IN  IF c.kind = "panic" THEN Panic(r)
        ELSE IF c.kind = "err" THEN Fail(r, c.err, c.cause)
        ELSE IF ~env.openOk
             THEN LET e == LibErr("sarama.NewClient", cl.Brokers)
                  IN  Fail([r EXCEPT !.tried = TRUE], e, e)
        ELSE [r EXCEPT !.tried = TRUE, !.opened = fresh,
                       !.conns = CacheStore(r.conns, cluster, fresh)]

\* func (c *ConnManager) GetClient(cluster string) (sarama.Client, error)
GetClientCall(m, cfg, cluster, env, fresh) ==
    LET hit == Lookup(m, cluster)
        r0 == Ret(m, cluster)
    IN  IF hit.ok THEN [r0 EXCEPT !.client = hit.cl]
        ELSE LET r1 == [r0 EXCEPT !.readCfg = TRUE]
                 eCfg == LibErr("config.ReadConfig", "")
             IN  IF ~env.cfgOk THEN Fail(r1, eCfg, eCfg)
                 ELSE LET cl == FindCluster(cfg.Clusters, cluster)
                          r2 == [r1 EXCEPT !.target = cl]
                      IN  IF ~cl.present
                          THEN Fail(r2, NotFoundErr(cluster), NoErr)
                          ELSE LET r3 == OpenAndStore(r2, cluster, cl, env, fresh)
                               IN  IF r3.outcome = "ok"
                                   THEN [r3 EXCEPT !.client = fresh]
                                   ELSE r3

\* return sarama.NewClusterAdminFromClient(cl)
NewClusterAdminFromClient(r, cl, env) ==
    LET e == LibErr("sarama.NewClusterAdminFromClient", "")
    IN  IF env.adminOk
        THEN [r EXCEPT !.admin = TRUE, !.adminFrom = cl]
        ELSE Fail([r EXCEPT !.adminFrom = cl], e, e)

\* func (c *ConnManager) GetAdminClient(cluster string) (sarama.ClusterAdmin, error)
GetAdminClientCall(m, cfg, cluster, env, fresh) ==
    LET hit == Lookup(m, cluster)
        r0 == Ret(m, cluster)
    IN  IF hit.ok THEN NewClusterAdminFromClient(r0, hit.cl, env)
        ELSE LET r1 == [r0 EXCEPT !.readCfg = TRUE]
                 eCfg == LibErr("config.ReadConfig", "")
             IN  IF ~env.cfgOk THEN Fail(r1, eCfg, eCfg)
                 ELSE LET cl == ResolveOrActive(cfg, cluster)
                          r2 == OpenAndStore([r1 EXCEPT !.target = cl],
                                             cluster, cl, env, fresh)
                      IN  IF r2.outcome = "ok"
                          THEN NewClusterAdminFromClient(r2, fresh, env)
                          ELSE r2

\* func (c *ConnManager) Connect(cluster string) error
ConnectCall(m, cfg, cluster, env, fresh) ==
    LET r == GetAdminClientCall(m, cfg, cluster, env, fresh)
    IN  [r EXCEPT !.admin = FALSE]

\* func (c *ConnManager) GetConfig(cluster string) (*sarama.Config, error)
GetConfigCall(m, cfg, cluster, env) ==
    LET r1 == [Ret(m, cluster) EXCEPT !.readCfg = TRUE]
        eCfg == LibErr("config.ReadConfig", "")
    IN  IF ~env.cfgOk THEN Fail(r1, eCfg, eCfg)
        ELSE LET cl == ResolveOrActive(cfg, cluster)
                 r2 == [r1 EXCEPT !.target = cl]
                 c == toSaramaConfig(cl)
             IN  IF c.kind = "panic" THEN Panic(r2)
                 ELSE IF c.kind = "err" THEN Fail(r2, c.err, c.cause)
                 ELSE [r2 EXCEPT !.gotCfg = TRUE, !.cfg = c.cfg]

\* broker.GetAvailableOffsets(req), the n-th send of the call
Send(r, n, ok) ==
    LET e == LibErr("sarama.Broker.GetAvailableOffsets", n)
        r1 == [r EXCEPT !.trace = Append(@, "send")]
    IN  IF ok THEN [r1 EXCEPT !.outcome = "ok", !.resp = n,
                              !.err = NoErr, !.cause = NoErr,
                              !.gotCfg = FALSE, !.cfg = NewConfig]
        ELSE [Fail(r1, e, e) EXCEPT !.resp = "", !.gotCfg = FALSE, !.cfg = NewConfig]

\* Mutant: the result of broker.Open is checked, and a failed reopen returns
\* the error of the first send instead of sending again.
GetAvailableOffsetsCheckedOpen(m, cfg, cluster, env) ==
    LET s1 == Send(Ret(m, cluster), "first", env.send1Ok)
    IN  IF s1.outcome = "err"
        THEN LET closed == [s1 EXCEPT !.trace = Append(@, "close")]
                 g == GetConfigCall(m, cfg, cluster, env)
                 r1 == [g EXCEPT !.trace = Append(closed.trace, "config"),
                                 !.cfgErr = g.err,
                                 !.gotCfg = FALSE, !.cfg = NewConfig]
             IN  IF g.outcome /= "ok" THEN r1
                 ELSE IF ~env.brokerOpenOk
                 THEN [Fail(r1, s1.err, s1.cause) EXCEPT
                          !.trace = Append(@, "openFailed")]
                 ELSE Send([r1 EXCEPT !.trace = Append(@, "open")],
                           "second", env.send2Ok)
        ELSE s1

\* Mutant: the error of GetConfig is dropped and the broker reopened and the
\* request sent again all the same.
GetAvailableOffsetsIgnoringConfigErr(m, cfg, cluster, env) ==
    LET s1 == Send(Ret(m, cluster), "first", env.send1Ok)
    IN  IF s1.outcome = "err"
        THEN LET closed == [s1 EXCEPT !.trace = Append(@, "close")]
                 g == GetConfigCall(m, cfg, cluster, env)
                 r1 == [g EXCEPT !.trace = Append(closed.trace, "config"),
                                 !.cfgErr = g.err,
                                 !.gotCfg = FALSE, !.cfg = NewConfig]
             IN  IF g.outcome = "panic" THEN r1
                 ELSE Send([r1 EXCEPT !.trace = Append(@,
                               IF env.brokerOpenOk THEN "open" ELSE "openFailed")],
                           "second", env.send2Ok)
        ELSE s1

\* func (c *ConnManager) GetAvailableOffsets(broker, cluster, req)
GetAvailableOffsetsCall(m, cfg, cluster, env) ==
    LET s1 == Send(Ret(m, cluster), "first", env.send1Ok)
    IN  IF s1.outcome = "err"
        THEN LET closed == [s1 EXCEPT !.trace = Append(@, "close")]
                 g == GetConfigCall(m, cfg, cluster, env)
                 r1 == [g EXCEPT !.trace = Append(closed.trace, "config"),
                                 !.cfgErr = g.err,
                                 !.gotCfg = FALSE, !.cfg = NewConfig]
             IN  IF g.outcome /= "ok" THEN r1
                 ELSE Send([r1 EXCEPT !.trace = Append(@,
                               IF env.brokerOpenOk THEN "open" ELSE "openFailed")],
                           "second", env.send2Ok)
        ELSE s1

----------------------------------------------------------------------------
(* The sequential program: one caller, one call after another. *)

NoCall == [Ret(EmptyMap, "") EXCEPT !.conns = EmptyMap]

\* func NewConnManager() *ConnManager
NewConnManager == EmptyMap

\* The configuration files: a cluster list, with its first cluster or none
\* marked as the current one.
Configs ==
    {[Clusters |-> cs, active |-> a] : cs \in ClusterLists, a \in {0, 1}}

Init ==
    /\ config \in {c \in Configs : c.active <= Len(c.Clusters)}
    /\ conns = NewConnManager
    /\ opens = << >>
    /\ last = [op |-> "none", name |-> "", r |-> NoCall]
    /\ calls = 0
    /\ pc = [p \in Procs |-> "idle"]
    /\ loc = [p \in Procs |-> [op |-> "none", name |-> "", client |-> 0]]
    /\ writers = {}

Running == calls < MaxCalls /\ last.r.outcome /= "panic"

\* The state after a call that ended as r.
Finish(op, cluster, r) ==
    /\ conns' = r.conns
    /\ opens' = IF r.opened = 0 THEN opens
                ELSE Append(opens, [name |-> cluster, id |-> r.opened,
                                    op |-> op, brokers |-> r.target.Brokers])
    /\ last' = [op |-> op, name |-> cluster, r |-> [r EXCEPT !.conns = EmptyMap]]
    /\ calls' = calls + 1
    /\ UNCHANGED <<config, pc, loc, writers>>

Fresh == Len(opens) + 1

GetClient ==
    /\ Running
    /\ \E cluster \in Names, env \in Envs({"cfgOk", "openOk"}) :
          Finish("GetClient", cluster, GetClientCall(conns, config, cluster, env, Fresh))

GetAdminClient ==
    /\ Running
    /\ \E cluster \in Names, env \in Envs({"cfgOk", "openOk", "adminOk"}) :
          Finish("GetAdminClient", cluster,
                 GetAdminClientCall(conns, config, cluster, env, Fresh))

Connect ==
    /\ Running
    /\ \E cluster \in Names, env \in Envs({"cfgOk", "openOk", "adminOk"}) :
          Finish("Connect", cluster, ConnectCall(conns, config, cluster, env, Fresh))

GetConfig ==
    /\ Running
    /\ \E cluster \in Names, env \in Envs({"cfgOk"}) :
          Finish("GetConfig", cluster, GetConfigCall(conns, config, cluster, env))

GetAvailableOffsets ==
    /\ Running
    /\ \E cluster \in Names,
          env \in Envs({"send1Ok", "cfgOk", "brokerOpenOk", "send2Ok"}) :
          Finish("GetAvailableOffsets", cluster,
                 GetAvailableOffsetsCall(conns, config, cluster, env))

Next ==
    \/ GetClient
    \/ GetAdminClient
    \/ Connect
    \/ GetConfig
    \/ GetAvailableOffsets

Spec == Init /\ [][Next]_vars

----------------------------------------------------------------------------
(* toSaramaConfig on its own: applied once to a cluster record drawn     *)
(* from every combination of the fields it reads.                        *)

VersionStrings == {"", "2.0.0", "0.10.2.0", "1.1.0", "bogus"}

SASLSections ==
    {NoSASL} \cup {SASLOf(m) : m \in {"", "PLAIN", "SCRAM-SHA-256", "SCRAM-SHA-512"}}

TLSSections ==
    {NoTLS} \cup
    {TLSOf(ca, cert, key, insecure) :
        ca \in {"", "ca.pem", "missing.pem"},
        cert \in {"", "client.pem", "missing.pem", "garbage.pem"},
        key \in {"", "client.key", "missing.key"},
        insecure \in BOOLEAN}

SecurityProtocols == {"", "SSL", "SASL_PLAINTEXT", "SASL_SSL"}

AllClusters ==
    {ClusterOf("a", "a1:9092", v, sasl, tls, proto) :
        v \in VersionStrings, sasl \in SASLSections,
        tls \in TLSSections, proto \in SecurityProtocols}

InitCfg ==
    /\ config \in {[Clusters |-> <<c>>, active |-> 1] : c \in AllClusters}
    /\ conns = NewConnManager
    /\ opens = << >>
    /\ last = [op |-> "none", name |-> "", r |-> NoCall]
    /\ calls = 0
    /\ pc = [p \in Procs |-> "idle"]
    /\ loc = [p \in Procs |-> [op |-> "none", name |-> "", client |-> 0]]
    /\ writers = {}

\* toSaramaConfig(cluster)
ToSaramaConfig ==
    /\ calls = 0
    /\ LET cluster == config.Clusters[1]
           c == toSaramaConfig(cluster)
       IN  last' = [op |-> "toSaramaConfig", name |-> cluster.Name,
                    r |-> [NoCall EXCEPT !.outcome = c.kind,
                                         !.gotCfg = (c.kind = "ok"),
                                         !.cfg = c.cfg,
                                         !.err = c.err,
                                         !.cause = c.cause,
                                         !.target = cluster]]
    /\ calls' = 1
    /\ UNCHANGED <<config, conns, opens, pc, loc, writers>>

NextCfg == ToSaramaConfig

SpecCfg == InitCfg /\ [][NextCfg]_vars

----------------------------------------------------------------------------
(* Concurrent callers: goroutines that call GetClient or GetAdminClient  *)
(* on one ConnManager with no lock.  A call is the map read (line 33 or  *)
(* 111), then everything up to sarama.NewClient (lines 36-59, 114-141),  *)
(* then the map assignment (line 61 or 143), which is not atomic: it has *)
(* a beginning and an end.                                               *)

\* The map as a call that missed saw it.
MapSeenOnMiss(m, cluster) == [k \in DOMAIN m \ {cluster} |-> m[k]]

Alive == \A p \in Procs : pc[p] /= "fatal"

\* The Go runtime ends the program: a panic, or "fatal error: concurrent map
\* writes" / "concurrent map read and map write".
Crash == pc' = [p \in Procs |-> "fatal"]

\* cl, ok := c.conns[cluster]; a hit returns at once
LookupStep(p) ==
    /\ Alive /\ pc[p] = "idle" /\ calls < MaxCalls
    /\ \E op \in {"GetClient", "GetAdminClient"}, cluster \in Names :
          LET hit == Lookup(conns, cluster)
          IN  /\ pc' = [pc EXCEPT ![p] = IF hit.ok THEN "idle" ELSE "open"]
              /\ loc' = [loc EXCEPT ![p] =
                            [op |-> op, name |-> cluster, client |-> hit.cl]]
    /\ calls' = calls + 1
    /\ UNCHANGED <<config, conns, opens, last, writers>>

\* lines 36-59 / 114-141: read the configuration, resolve, build, open
OpenStep(p) ==
    /\ Alive /\ pc[p] = "open"
    /\ \E env \in Envs({"cfgOk", "openOk"}) :
          LET seen == MapSeenOnMiss(conns, loc[p].name)
              r == IF loc[p].op = "GetClient"
                   THEN GetClientCall(seen, config, loc[p].name, env, Fresh)
                   ELSE GetAdminClientCall(seen, config, loc[p].name, env, Fresh)
          IN  IF r.outcome = "panic"
              THEN Crash /\ UNCHANGED <<loc, opens>>
              ELSE IF r.opened = 0
              THEN pc' = [pc EXCEPT ![p] = "idle"] /\ UNCHANGED <<loc, opens>>
              ELSE /\ pc' = [pc EXCEPT ![p] = "store"]
                   /\ loc' = [loc EXCEPT ![p].client = r.opened]
                   /\ opens' = Append(opens,
                          [name |-> loc[p].name, id |-> r.opened,
                           op |-> loc[p].op, brokers |-> r.target.Brokers])
    /\ UNCHANGED <<config, conns, last, calls, writers>>

\* c.conns[cluster] = client begins
StoreBegin(p) ==
    /\ Alive /\ pc[p] = "store"
    /\ pc' = [pc EXCEPT ![p] = "storing"]
    /\ writers' = writers \cup {p}
    /\ UNCHANGED <<config, conns, opens, last, calls, loc>>

\* c.conns[cluster] = client ends; the call returns
StoreEnd(p) ==
    /\ Alive /\ pc[p] = "storing"
    /\ conns' = CacheStore(conns, loc[p].name, loc[p].client)
    /\ writers' = writers \ {p}
    /\ pc' = [pc EXCEPT ![p] = "idle"]
    /\ UNCHANGED <<config, opens, last, calls, loc>>

\* A goroutine reaches the map while another is inside its assignment: the
\* runtime may detect the race and end the program (or may not: the other
\* steps stay enabled).
MapRaceFatal(p) ==
    /\ Alive /\ writers \ {p} /= {}
    /\ pc[p] = "store" \/ (pc[p] = "idle" /\ calls < MaxCalls)
    /\ Crash
    /\ UNCHANGED <<config, conns, opens, last, calls, loc, writers>>

NextConc ==
    \E p \in Procs :
        \/ LookupStep(p)
        \/ OpenStep(p)
        \/ StoreBegin(p)
        \/ StoreEnd(p)
        \/ MapRaceFatal(p)

SpecConc == Init /\ [][NextConc]_vars

----------------------------------------------------------------------------
(* Vocabulary of the properties. *)

ClientOps == {"GetClient", "GetAdminClient", "Connect"}

AdminOps == {"GetAdminClient", "Connect"}

\* The opens recorded for name n.
OpensOf(n) == {i \in 1..Len(opens) : opens[i].name = n}

\* The configuration file lists a cluster named n.
Configured(n) == \E i \in 1..Len(config.Clusters) : config.Clusters[i].Name = n

\* The call that ended last read the configuration file successfully.
ConfigWasRead == last.r.readCfg /\ last.r.cause.by /= "config.ReadConfig"

----------------------------------------------------------------------------
(* C1: in a sequence of calls made one after another, at most one         *)
(* connection is ever opened successfully for a cluster name, and a call  *)
(* opens one only when the name was not cached when it began.             *)
C1_OneOpenPerName ==
    /\ \A n \in Names : Cardinality(OpensOf(n)) <= 1
    /\ last.r.opened /= 0 => ~last.r.hit /\ last.op \in ClientOps

\* A connection was opened for a name and a later call asked for the same name.
C1_Witness ==
    /\ calls >= 2
    /\ last.op \in ClientOps
    /\ last.r.hit
    /\ last.r.opened = 0
    /\ OpensOf(last.name) /= {}

(* C2: GetClient, GetAdminClient and Connect share one cache: a call for  *)
(* a name that is cached returns (GetClient) or builds its admin handle   *)
(* from (GetAdminClient, Connect) the client cached under that name, which*)
(* is the client an earlier call opened for it, and it neither reads the  *)
(* configuration nor opens a connection; a call that succeeds leaves the  *)
(* name cached.                                                           *)
C2_SharedCache ==
    /\ last.op \in ClientOps /\ last.r.outcome = "ok" =>
          /\ last.name \in DOMAIN conns
          /\ last.op = "GetClient" => last.r.client = conns[last.name]
          /\ last.op \in AdminOps => last.r.adminFrom = conns[last.name]
    /\ last.op \in ClientOps /\ last.r.hit =>
          /\ last.name \in DOMAIN conns
          /\ \E i \in OpensOf(last.name) : opens[i].id = conns[last.name]
          /\ ~last.r.readCfg /\ ~last.r.tried /\ last.r.opened = 0
          /\ last.op = "GetClient" =>
                last.r.outcome = "ok" /\ last.r.client = conns[last.name]
          /\ last.op \in AdminOps => last.r.adminFrom = conns[last.name]

\* GetClient served from an entry that Connect or GetAdminClient stored.
C2_Witness ==
    /\ last.op = "GetClient"
    /\ last.r.hit
    /\ \E i \in OpensOf(last.name) : opens[i].op \in AdminOps

(* C3 (as claimed): with callers running GetClient / GetAdminClient     *)
(* concurrently and no lock, at most one connection is opened per        *)
(* cluster name, every opened connection whose caller has finished its   *)
(* store is the one the cache holds for its name, and no two callers are *)
(* inside the map assignment at the same time.                           *)
C3_Original ==
    /\ \A n \in Names : Cardinality(OpensOf(n)) <= 1
    /\ \A i \in 1..Len(opens) :
          /\ Alive
          /\ \A p \in Procs : ~(pc[p] \in {"store", "storing"}
                                /\ loc[p].client = opens[i].id)
          => /\ opens[i].name \in DOMAIN conns
             /\ conns[opens[i].name] = opens[i].id
    /\ Cardinality(writers) <= 1

\* The three parts of C3, each refuted on its own.
C3_OneOpenPerName == \A n \in Names : Cardinality(OpensOf(n)) <= 1

C3_NoneLost ==
    \A i \in 1..Len(opens) :
        /\ Alive
        /\ \A p \in Procs : ~(pc[p] \in {"store", "storing"}
                              /\ loc[p].client = opens[i].id)
        => /\ opens[i].name \in DOMAIN conns
           /\ conns[opens[i].name] = opens[i].id

C3_OneWriter == Cardinality(writers) <= 1

(* C4 (as claimed): one call of GetAvailableOffsets always returns, sends *)
(* the request at most twice, sends it a second time only after the      *)
(* first send failed and the broker was closed, the configuration        *)
(* resolved and the broker reopened, in that order, and after a first    *)
(* send that succeeds returns its response without closing or reopening. *)
C4_Original ==
    last.op = "GetAvailableOffsets" =>
        /\ last.r.outcome \in {"ok", "err"}
        /\ \/ last.r.trace = <<"send">> /\ last.r.outcome = "ok" /\ last.r.resp = "first"
           \/ last.r.trace = <<"send", "close", "config">> /\ last.r.outcome = "err"
           \/ /\ Len(last.r.trace) = 5
              /\ SubSeq(last.r.trace, 1, 3) = <<"send", "close", "config">>
              /\ last.r.trace[4] \in {"open", "openFailed"}
              /\ last.r.trace[5] = "send"

\* What is left of C4 for the calls that do return.
C4_WhenItReturns == last.r.outcome /= "panic" => C4_Original

\* A call of GetAvailableOffsets retried and returned the second response.
C4_Retried ==
    /\ last.op = "GetAvailableOffsets"
    /\ Len(last.r.trace) = 5
    /\ last.r.resp = "second"

(* C5 (as claimed): every error GetClient, GetAdminClient, GetConfig or  *)
(* Connect returns for a failed library step is the very error value     *)
(* that step produced.                                                   *)
C5_Original ==
    /\ last.op \in ClientOps \cup {"GetConfig"}
    /\ last.r.outcome = "err"
    /\ last.r.cause /= NoErr
    => last.r.err = last.r.cause

\* The library steps whose error toSaramaConfig replaces by a new one.
WrappedSteps == {"sarama.ParseKafkaVersion", "tls.X509KeyPair", "ioutil.ReadFile"}

\* The error is a new fmt.Errorf value whose text embeds the text of cause.
Wraps(err, cause) ==
    /\ err /= cause
    /\ err.by = "fmt.Errorf" /\ err.prefix /= ""
    /\ err.of = cause.by /\ err.arg = cause.arg

(* C5 (amended): the error of a failed configuration read, connection    *)
(* open, admin-handle creation, and of the CA file read of a SASL_SSL    *)
(* cluster, is returned unchanged; the error of a failed version parse,  *)
(* key-pair load, client certificate or client key read, and of the CA   *)
(* file read of a cluster that is not SASL_SSL, is replaced by a new     *)
(* error whose message embeds the original's text; GetClient's not-found *)
(* error is made by GetClient itself.                                    *)
C5_Amended ==
    /\ last.op \in ClientOps \cup {"GetConfig"}
    /\ last.r.outcome = "err"
    => IF last.r.cause = NoErr
       THEN last.op = "GetClient" /\ last.r.err = NotFoundErr(last.name)
       ELSE IF last.r.cause.by \in WrappedSteps
                /\ ~(/\ last.r.cause.by = "ioutil.ReadFile"
                     /\ last.r.target.SecurityProtocol = "SASL_SSL")
       THEN Wraps(last.r.err, last.r.cause)
       ELSE last.r.err = last.r.cause

\* A CA file read failed for a SASL_SSL cluster, and its error came back as it was.
C5_Witness ==
    /\ last.op \in ClientOps \cup {"GetConfig"}
    /\ last.r.outcome = "err"
    /\ last.r.cause.by = "ioutil.ReadFile"
    /\ last.r.target.SecurityProtocol = "SASL_SSL"
    /\ last.r.err = last.r.cause

(* C6: lazy population.  A new ConnManager has an empty cache and has    *)
(* opened nothing; at all times the cached names are exactly the names   *)
(* for which a GetClient, GetAdminClient or Connect call opened a        *)
(* connection, each mapped to the client that call opened.               *)
C6_LazyPopulation ==
    /\ calls = 0 => DOMAIN conns = {} /\ opens = << >>
    /\ DOMAIN conns = {opens[i].name : i \in 1..Len(opens)}
    /\ \A n \in DOMAIN conns :
          \E i \in OpensOf(n) : opens[i].id = conns[n] /\ opens[i].op \in ClientOps
    /\ \A i \in 1..Len(opens) : conns[opens[i].name] = opens[i].id

\* Two names are cached, one filled by GetClient and one by GetAdminClient.
C6_Witness ==
    /\ Cardinality(DOMAIN conns) >= 2
    /\ \E i, j \in 1..Len(opens) :
          opens[i].op = "GetClient" /\ opens[j].op = "GetAdminClient"

(* C7: name resolution on a cache miss, the configuration being read.    *)
(* GetClient(n) uses a configured cluster whose Name is exactly n and,   *)
(* when there is none, returns the not-found error and opens nothing;    *)
(* GetAdminClient(n), Connect(n) and GetConfig(n) use the active cluster *)
(* when n is empty or matches no configured cluster, and a cluster named *)
(* n otherwise.                                                          *)
C7_NameResolution ==
    LET listed == {config.Clusters[i] : i \in 1..Len(config.Clusters)}
        active == IF config.active = 0 THEN NilCluster
                  ELSE config.Clusters[config.active]
        t == last.r.target
    IN  /\ last.op = "GetClient" /\ ConfigWasRead =>
              IF Configured(last.name)
              THEN t \in listed /\ t.Name = last.name
              ELSE /\ last.r.outcome = "err"
                   /\ last.r.err = NotFoundErr(last.name)
                   /\ ~last.r.tried /\ last.r.opened = 0 /\ last.r.client = 0
        /\ last.op \in AdminOps \cup {"GetConfig"} /\ ConfigWasRead =>
              IF last.name = "" \/ ~Configured(last.name)
              THEN t = active
              ELSE t \in listed /\ t.Name = last.name

\* GetAdminClient with a name that is configured nowhere connected to the
\* active cluster.
C7_Witness ==
    /\ last.op = "GetAdminClient"
    /\ last.name = "x"
    /\ last.r.opened /= 0
    /\ config.active /= 0
    /\ last.r.target = config.Clusters[config.active]

(* C8 (as claimed): a GetClient, GetAdminClient or Connect call that     *)
(* returns an error leaves the cache exactly as it was.                  *)
C8_Original ==
    [][(last'.op \in ClientOps /\ last'.r.outcome = "err") => conns' = conns]_vars

(* C8 (amended): a GetClient call that returns an error leaves the cache *)
(* as it was, and so does a GetAdminClient or Connect call whose error   *)
(* comes from any step up to and including the connection open; when     *)
(* GetAdminClient or Connect opened the connection on a cache miss and   *)
(* the admin-handle creation then failed, the error is returned and the  *)
(* cache has gained the entry for that name, holding the new client, and *)
(* is otherwise unchanged.                                               *)
C8_Amended ==
    [][(last'.op \in ClientOps /\ last'.r.outcome = "err") =>
          IF last'.r.opened = 0
          THEN conns' = conns
          ELSE /\ last'.op \in AdminOps
               /\ last'.r.cause.by = "sarama.NewClusterAdminFromClient"
               /\ last'.name \notin DOMAIN conns
               /\ DOMAIN conns' = DOMAIN conns \cup {last'.name}
               /\ conns'[last'.name] = last'.r.opened
               /\ \A k \in DOMAIN conns : conns'[k] = conns[k]]_vars

\* Connect returned the admin-handle error after it had opened and cached
\* the connection.
C8_Witness ==
    /\ last.op = "Connect"
    /\ last.r.outcome = "err"
    /\ last.r.opened /= 0
    /\ last.name \in DOMAIN conns

C10_CacheOnlyGrows ==
    [][/\ \A n \in DOMAIN conns : n \in DOMAIN conns' /\ conns'[n] = conns[n]
       /\ last'.op \in {"GetConfig", "GetAvailableOffsets"} =>
             /\ conns' = conns
             /\ opens' = opens
             /\ ~last'.r.tried /\ last'.r.opened = 0]_vars

\* GetAvailableOffsets went through its retry with a client in the cache.
C10_Witness ==
    /\ last.op = "GetAvailableOffsets"
    /\ Len(last.r.trace) = 5
    /\ DOMAIN conns /= {}

\* The error of the n-th send of a call.
SendErr(n) == LibErr("sarama.Broker.GetAvailableOffsets", n)

\* The library steps GetConfig can fail in.
ConfigSteps ==
    {"config.ReadConfig", "sarama.ParseKafkaVersion", "ioutil.ReadFile",
     "tls.X509KeyPair"}

(* C11: in GetAvailableOffsets, when the first send failed and the       *)
(* configuration was resolved, the broker is reopened and the request    *)
(* sent again whether or not the reopening succeeded, and what the call  *)
(* returns is the response and the error of that second send; no call    *)
(* ever returns the error of its first send.                             *)
C11_SecondSendResult ==
    last.op = "GetAvailableOffsets" =>
        /\ last.r.err /= SendErr("first")
        /\ Len(last.r.trace) >= 3 /\ last.r.cfgErr = NoErr
                                  /\ last.r.outcome /= "panic" =>
              /\ Len(last.r.trace) = 5
              /\ last.r.trace[4] \in {"open", "openFailed"}
              /\ last.r.trace[5] = "send"
              /\ \/ last.r.outcome = "ok" /\ last.r.resp = "second"
                                          /\ last.r.err = NoErr
                 \/ last.r.outcome = "err" /\ last.r.resp = ""
                                           /\ last.r.err = SendErr("second")

\* The reopening failed and the call returned the second send's error.
C11_Witness ==
    /\ last.op = "GetAvailableOffsets"
    /\ Len(last.r.trace) = 5
    /\ last.r.trace[4] = "openFailed"
    /\ last.r.err = SendErr("second")

(* C12: in GetAvailableOffsets, when the first send failed and GetConfig *)
(* then returned an error, the call returns that configuration error and *)
(* no response, sends no second request and leaves the broker closed:    *)
(* Close was called, Open was not.                                       *)
C12_ConfigErrorStops ==
    /\ last.op = "GetAvailableOffsets"
    /\ Len(last.r.trace) >= 3
    /\ last.r.cfgErr /= NoErr
    => /\ last.r.trace = <<"send", "close", "config">>
       /\ last.r.outcome = "err"
       /\ last.r.resp = ""
       /\ last.r.err = last.r.cfgErr
       /\ last.r.cause.by \in ConfigSteps

\* The retry stopped at a configuration whose CA file cannot be read.
C12_Witness ==
    /\ last.op = "GetAvailableOffsets"
    /\ last.r.outcome = "err"
    /\ last.r.cause.by = "ioutil.ReadFile"
    /\ last.r.trace = <<"send", "close", "config">>

(* C13 (as claimed): toSaramaConfig is total: for every cluster record   *)
(* it returns a configuration or an error and never dereferences a       *)
(* missing section, also for SecurityProtocol SASL_SSL with no SASL      *)
(* section.                                                              *)
C13_Original ==
    last.op = "toSaramaConfig" =>
        \/ last.r.outcome = "ok" /\ last.r.gotCfg /\ last.r.err = NoErr
        \/ last.r.outcome = "err" /\ ~last.r.gotCfg /\ last.r.err /= NoErr

\* What is left of C13: the function returns for every record except those
\* with SecurityProtocol SASL_SSL, no SASL section and no earlier error.
C13_ExceptSASLSSLWithoutSASL ==
    last.op = "toSaramaConfig" /\ last.r.outcome = "panic" =>
        /\ last.r.target.SecurityProtocol = "SASL_SSL"
        /\ ~last.r.target.SASL.present

(* C14: in every configuration toSaramaConfig returns, TLS is enabled    *)
(* exactly when the cluster has a TLS section or its SecurityProtocol is *)
(* SASL_SSL, a TLS config object is set whenever TLS is enabled, and     *)
(* SASL is enabled, with the configured user and password, exactly when  *)
(* the cluster has a SASL section.                                       *)
C14_TLSAndSASLEnabled ==
    last.op = "toSaramaConfig" /\ last.r.outcome = "ok" =>
        LET cl == last.r.target
            cfg == last.r.cfg
        IN  /\ cfg.TLSEnable <=> (cl.TLS.present \/ cl.SecurityProtocol = "SASL_SSL")
            /\ cfg.TLSEnable => cfg.TLSConfig.set
            /\ cfg.SASLEnable <=> cl.SASL.present
            /\ cl.SASL.present =>
                  /\ cfg.SASLUser = cl.SASL.Username
                  /\ cfg.SASLPassword = cl.SASL.Password
            /\ ~cl.SASL.present => cfg.SASLUser = "" /\ cfg.SASLPassword = ""

\* A SASL_SSL cluster with a SASL section and no TLS section got TLS with a
\* config object, and SASL with its credentials.
C14_Witness ==
    /\ last.op = "toSaramaConfig"
    /\ last.r.outcome = "ok"
    /\ last.r.target.SecurityProtocol = "SASL_SSL"
    /\ ~last.r.target.TLS.present
    /\ last.r.cfg.TLSEnable /\ last.r.cfg.TLSConfig.set
    /\ last.r.cfg.SASLEnable /\ last.r.cfg.SASLUser = "user"

\* The SCRAM mechanisms and the hash of the client generator of each.
SCRAMHash ==
    [m \in {"SCRAM-SHA-256", "SCRAM-SHA-512"} |->
        IF m = "SCRAM-SHA-256" THEN "SHA256" ELSE "SHA512"]

(* C15 (as claimed): whenever the SASL section names SCRAM-SHA-256 or    *)
(* SCRAM-SHA-512, the configuration toSaramaConfig returns carries that  *)
(* mechanism and the matching SCRAM client generator, whatever the       *)
(* SecurityProtocol; for any other mechanism no SCRAM mechanism is set.  *)
C15_Original ==
    last.op = "toSaramaConfig" /\ last.r.outcome = "ok" =>
        LET cl == last.r.target
            cfg == last.r.cfg
        IN  IF cl.SASL.present /\ cl.SASL.Mechanism \in DOMAIN SCRAMHash
            THEN /\ cfg.SASLMechanism = cl.SASL.Mechanism
                 /\ cfg.SCRAM = SCRAMHash[cl.SASL.Mechanism]
            ELSE cfg.SASLMechanism = "" /\ cfg.SCRAM = ""

\* What the code does: the SCRAM mechanism is set only for SASL_SSL.
C15_OnlyForSASLSSL ==
    last.op = "toSaramaConfig" /\ last.r.outcome = "ok" =>
        LET cl == last.r.target
            cfg == last.r.cfg
        IN  IF /\ cl.SecurityProtocol = "SASL_SSL"
               /\ cl.SASL.present /\ cl.SASL.Mechanism \in DOMAIN SCRAMHash
            THEN /\ cfg.SASLMechanism = cl.SASL.Mechanism
                 /\ cfg.SCRAM = SCRAMHash[cl.SASL.Mechanism]
            ELSE cfg.SASLMechanism = "" /\ cfg.SCRAM = ""

(* C16: protocol version.  The configuration GetConfig returns has the   *)
(* default version V1_1_0_0 when the cluster's version string is empty   *)
(* and the parsed version when the string parses; when it does not parse *)
(* GetConfig returns an error and no configuration, and GetClient,       *)
(* GetAdminClient and Connect, on a cache miss, return an error, open no *)
(* connection and cache nothing.                                         *)
C16_ProtocolVersion ==
    LET cl == last.r.target
        parses == cl.Version \in {"2.0.0", "0.10.2.0", "1.1.0"}
        resolved == ConfigWasRead /\ cl.present
    IN  /\ last.op = "GetConfig" /\ resolved /\ cl.Version = "" /\ last.r.gotCfg =>
              last.r.cfg.Version = <<1, 1, 0, 0>>
        /\ last.op = "GetConfig" /\ resolved /\ cl.Version = "2.0.0" /\ last.r.gotCfg =>
              last.r.cfg.Version = <<2, 0, 0, 0>>
        /\ last.op = "GetConfig" /\ resolved /\ cl.Version /= "" /\ ~parses =>
              /\ last.r.outcome = "err"
              /\ ~last.r.gotCfg
              /\ last.r.cause = LibErr("sarama.ParseKafkaVersion", cl.Version)
        /\ last.op \in ClientOps /\ resolved /\ cl.Version /= "" /\ ~parses =>
              /\ last.r.outcome = "err"
              /\ last.r.cause = LibErr("sarama.ParseKafkaVersion", cl.Version)
              /\ ~last.r.tried /\ last.r.opened = 0 /\ last.r.client = 0
              /\ last.name \notin DOMAIN conns

\* GetAdminClient resolved a cluster whose version does not parse, with
\* another name already cached.
C16_Witness ==
    /\ last.op = "GetAdminClient"
    /\ ConfigWasRead
    /\ last.r.target.Version = "bogus"
    /\ last.r.outcome = "err"
    /\ DOMAIN conns /= {}

\* The version part of C16 for every cluster record, toSaramaConfig applied
\* on its own.
C16_VersionOfEveryRecord ==
    last.op = "toSaramaConfig" =>
        LET v == last.r.target.Version
        IN  /\ last.r.outcome = "ok" /\ v = "" => last.r.cfg.Version = <<1, 1, 0, 0>>
            /\ last.r.outcome = "ok" /\ v = "2.0.0" => last.r.cfg.Version = <<2, 0, 0, 0>>
            /\ last.r.outcome = "ok" /\ v = "0.10.2.0" => last.r.cfg.Version = <<0, 10, 2, 0>>
            /\ last.r.outcome = "ok" /\ v = "1.1.0" => last.r.cfg.Version = <<1, 1, 0, 0>>
            /\ v = "bogus" => last.r.outcome = "err" /\ ~last.r.gotCfg

(* C17 (as claimed): no two distinct cache keys ever hold connections    *)
(* opened to the same configured cluster.                                *)
C17_Original ==
    \A i, j \in 1..Len(opens) :
        /\ opens[i].name /= opens[j].name
        /\ opens[i].name \in DOMAIN conns /\ conns[opens[i].name] = opens[i].id
        /\ opens[j].name \in DOMAIN conns /\ conns[opens[j].name] = opens[j].id
        => opens[i].brokers /= opens[j].brokers

====
